---- MODULE Spec2Model ----
(***************************************************************************)
(* Model of the image request adapter generateOrEditImage and of the App   *)
(* component that calls it (src/services/geminiService.ts).                *)
(*                                                                         *)
(* JavaScript values are encoded as follows.                               *)
(*   - a string is a sequence of tokens; "" is <<>>; concatenation and     *)
(*     template literals are \o;                                           *)
(*   - an optional value (undefined / null or a value) is a sequence of    *)
(*     length 0 or 1: None is <<>>, Some(v) is <<v>>;                      *)
(*   - objects are records, arrays are sequences.                         *)
(***************************************************************************)
EXTENDS Integers, Sequences, FiniteSets, TLC

VARIABLES calls, mock,
          prompt, uploadedImage, generatedImageUrl, isLoading, error,
          readers, pending

vars == <<calls, mock, prompt, uploadedImage, generatedImageUrl, isLoading,
          error, readers, pending>>

adapterVars == <<calls, mock>>

appVars == <<prompt, uploadedImage, generatedImageUrl, isLoading, error,
             readers, pending>>

(***************************************************************************)
(* Bounds of the model.                                                    *)
(***************************************************************************)
MaxParts == 3

MaxImages == 2

MaxCalls == 3

MaxReaders == 1

MaxPending == 2

(***************************************************************************)
(* Encoding helpers.                                                       *)
(***************************************************************************)
None == <<>>

Some(v) == <<v>>

SeqsUpTo(S, n) == UNION {[1..k -> S] : k \in 0..n}

\* `${x}` inside a template literal: undefined is rendered as the text
\* "undefined", a string as itself.
Template(opt) == IF opt = None THEN <<"undefined">> ELSE opt[1]

(***************************************************************************)
(* Values the provider and the callers are drawn from.                     *)
(***************************************************************************)
PNG == <<"image/", "png">>

WEBP == <<"image/", "webp">>

Payloads == {<<"AAAA">>, <<"BBBB">>}

DirectPrompts == {<<>>, <<"a">>}

SourceImages ==
    {[data |-> <<"AAAA">>, mimeType |-> PNG],
     [data |-> <<"BBBB">>, mimeType |-> WEBP]}

\* parts of a generateContent response
TextPart == [text |-> Some(<<"hello">>), inlineData |-> None]

InlinePart(d, m) == [text |-> None, inlineData |-> Some([data |-> d, mimeType |-> m])]

Parts == {TextPart,
          InlinePart(Some(<<"AAAA">>), Some(PNG)),
          InlinePart(Some(<<>>), Some(WEBP))}

\* entries of a generateImages response
Entry(img) == [image |-> img]

Entries == {Entry(None),
            Entry(Some([imageBytes |-> None, mimeType |-> Some(PNG)])),
            Entry(Some([imageBytes |-> Some(<<>>), mimeType |-> Some(PNG)])),
            Entry(Some([imageBytes |-> Some(<<"AAAA">>), mimeType |-> Some(PNG)])),
            Entry(Some([imageBytes |-> Some(<<"BBBB">>), mimeType |-> None]))}

EditResponses ==
    {[candidates |-> None], [candidates |-> Some(<<>>)],
     [candidates |-> Some(<<[content |-> None]>>)],
     [candidates |-> Some(<<[content |-> Some([parts |-> None])]>>)]}
    \cup {[candidates |-> Some(<<[content |-> Some([parts |-> Some(ps)])]>>)] :
            ps \in SeqsUpTo(Parts, MaxParts)}

GenerateResponses ==
    {[generatedImages |-> None]}
    \cup {[generatedImages |-> Some(es)] : es \in SeqsUpTo(Entries, MaxImages)}

\* values a rejected remote call can carry: two Error objects (one with an
\* empty message) and two values that are not Error instances
Thrown(isErr, msg, site) == [instanceofError |-> isErr, message |-> msg, site |-> site]

Rejections ==
    {Thrown(TRUE, Some(<<"fetch failed">>), "transport"),
     Thrown(TRUE, Some(<<>>), "transport"),
     Thrown(FALSE, None, "transport"),
     Thrown(FALSE, Some(<<"quota exceeded">>), "transport")}

Resolve(r) == [settled |-> "resolve", response |-> Some(r), thrown |-> None]

Reject(x) == [settled |-> "reject", response |-> None, thrown |-> Some(x)]

Answers(op) ==
    {Reject(x) : x \in Rejections}
    \cup {Resolve(r) : r \in IF op = "edit" THEN EditResponses ELSE GenerateResponses}

(***************************************************************************)
(* generateOrEditImage                                                     *)
(***************************************************************************)
Calls == 1..MaxCalls

\* the adapter calls made by the App component
AppCalls == (MaxCalls + 1)..(MaxCalls + MaxPending)

Returned(url) == [kind |-> "returned", value |-> url, error |-> None]

Raised(e) == [kind |-> "raised", value |-> <<>>, error |-> Some(e)]

\* new Error(msg) created at the given source line
NewError(msg, site) == Thrown(TRUE, Some(msg), site)

\* the TypeError the runtime raises for reading a property of undefined
TypeError(msg, site) == Thrown(TRUE, Some(msg), site)

IdleCall ==
    [pc |-> "idle", prompt |-> <<>>, image |-> None, requests |-> <<>>,
     answer |-> None, outcome |-> None, caught |-> 0, logged |-> <<>>]

\* SelectOperation choosing on the image's media type as well
SelectOperationByMimeType(image) ==
    IF image # None /\ image[1].mimeType = PNG THEN "edit" ELSE "generate"

\* if (image) ... else ...
SelectOperation(image) == IF image # None THEN "edit" ELSE "generate"

EditRequest(p, image) ==
    [op |-> "edit", model |-> "gemini-2.5-flash-image",
     parts |-> <<InlinePart(Some(image.data), Some(image.mimeType)),
                 [text |-> Some(p), inlineData |-> None]>>,
     prompt |-> None]

GenerateRequest(p) ==
    [op |-> "generate", model |-> "imagen-4.0-generate-001",
     parts |-> <<>>, prompt |-> Some(p)]

BuildRequest(p, image) ==
    IF SelectOperation(image) = "edit"
    THEN EditRequest(p, image[1])
    ELSE GenerateRequest(p)

\* response.candidates?.[0]?.content?.parts
CandidateParts(response) ==
    IF response.candidates = None THEN None
    ELSE IF Len(response.candidates[1]) = 0 THEN None
    ELSE IF response.candidates[1][1].content = None THEN None
    ELSE response.candidates[1][1].content[1].parts

\* FindImagePart returning the last match instead of the first
FindLastImagePart(parts) ==
    IF parts = None THEN None
    ELSE LET ps == parts[1]
             hits == {i \in 1..Len(ps) : ps[i].inlineData # None}
         IN  IF hits = {} THEN None
             ELSE Some(ps[CHOOSE i \in hits : \A j \in hits : i >= j])

\* parts?.find(p => p.inlineData): the first part whose inlineData is set
FindImagePart(parts) ==
    IF parts = None THEN None
    ELSE LET ps == parts[1]
             hits == {i \in 1..Len(ps) : ps[i].inlineData # None}
         IN  IF hits = {} THEN None
             ELSE Some(ps[CHOOSE i \in hits : \A j \in hits : i <= j])

\* `data:${mimeType};base64,${data}`
DataUrl(mimeType, data) ==
    <<"data:">> \o Template(mimeType) \o <<";base64", ",">> \o Template(data)

JpegDataUrl(bytes) == <<"data:", "image/", "jpeg", ";base64", ",">> \o bytes

Return(v) == [kind |-> "return", value |-> v, thrown |-> None]

Throw(x) == [kind |-> "throw", value |-> <<>>, thrown |-> Some(x)]

NoEditedImage == <<"API did not return an edited image.">>

NoImages == <<"API did not return any images.">>

EmptyImageData == <<"Generated image data is empty.">>

ReadOfUndefined == <<"Cannot read properties of undefined (reading 'imageBytes')">>

\* EditBody without the check that an image part was found
EditBodyUnchecked(response) ==
    LET imagePart == FindImagePart(CandidateParts(response))
    IN  IF imagePart # None
        THEN Return(DataUrl(imagePart[1].inlineData[1].mimeType,
                            imagePart[1].inlineData[1].data))
        ELSE Throw(TypeError(<<"Cannot read properties of undefined (reading 'inlineData')">>, "L38"))

\* lines 35-41
EditBody(response) ==
    LET imagePart == FindImagePart(CandidateParts(response))
    IN  IF imagePart # None /\ imagePart[1].inlineData # None
        THEN Return(DataUrl(imagePart[1].inlineData[1].mimeType,
                            imagePart[1].inlineData[1].data))
        ELSE Throw(NewError(NoEditedImage, "L41"))

\* GenerateBody tagging the payload with the media type of the entry
GenerateBodyEchoMimeType(response) ==
    IF response.generatedImages = None \/ Len(response.generatedImages[1]) = 0
    THEN Throw(NewError(NoImages, "L56"))
    ELSE LET first == response.generatedImages[1][1]
         IN  IF first.image = None
             THEN Throw(TypeError(ReadOfUndefined, "L59"))
             ELSE LET base64ImageBytes == first.image[1].imageBytes
                  IN  IF base64ImageBytes = None \/ base64ImageBytes[1] = <<>>
                      THEN Throw(NewError(EmptyImageData, "L61"))
                      ELSE Return(DataUrl(first.image[1].mimeType, base64ImageBytes))

\* GenerateBody without the length check of the list
GenerateBodyNoLengthCheck(response) ==
    IF response.generatedImages = None
    THEN Throw(NewError(NoImages, "L56"))
    ELSE IF Len(response.generatedImages[1]) = 0
    THEN Throw(TypeError(<<"Cannot read properties of undefined (reading 'image')">>, "L59"))
    ELSE LET first == response.generatedImages[1][1]
         IN  IF first.image = None
             THEN Throw(TypeError(ReadOfUndefined, "L59"))
             ELSE LET base64ImageBytes == first.image[1].imageBytes
                  IN  IF base64ImageBytes = None \/ base64ImageBytes[1] = <<>>
                      THEN Throw(NewError(EmptyImageData, "L61"))
                      ELSE Return(JpegDataUrl(base64ImageBytes[1]))

\* lines 55-64
GenerateBody(response) ==
    IF response.generatedImages = None \/ Len(response.generatedImages[1]) = 0
    THEN Throw(NewError(NoImages, "L56"))
    ELSE LET first == response.generatedImages[1][1]
         IN  IF first.image = None
             THEN Throw(TypeError(ReadOfUndefined, "L59"))
             ELSE LET base64ImageBytes == first.image[1].imageBytes
                  IN  IF base64ImageBytes = None \/ base64ImageBytes[1] = <<>>
                      THEN Throw(NewError(EmptyImageData, "L61"))
                      ELSE Return(JpegDataUrl(base64ImageBytes[1]))

\* the try block after the awaited remote call has settled
TryBody(op, answer) ==
    IF answer.settled = "reject" THEN Throw(answer.thrown[1])
    ELSE IF op = "edit" THEN EditBody(answer.response[1])
    ELSE GenerateBody(answer.response[1])

\* CatchHandler rethrowing what it caught
CatchHandlerRethrow(caught) == caught

\* lines 66-72
CatchHandler(caught) ==
    IF caught.instanceofError
    THEN NewError(<<"Gemini API Error: ">> \o caught.message[1], "L69")
    ELSE NewError(<<"An unknown error occurred while generating the content.">>, "L71")

\* the answers the provider can give to a request: any, or the scripted one
\* when a deterministic mock transport is installed
ProviderAnswers(op) == IF mock = None THEN Answers(op) ELSE {mock[1][op]}

\* Invoke building its request from an image buffer shared between calls
InvokeSharedImage(c, p, image) ==
    /\ calls[c].pc = "idle"
    /\ LET others == {d \in DOMAIN calls : d # c /\ calls[d].pc = "awaiting"}
           shared == IF others = {} THEN image
                     ELSE calls[CHOOSE d \in others : TRUE].image
       IN  calls' = [calls EXCEPT ![c] =
                        [IdleCall EXCEPT !.pc = "awaiting", !.prompt = p,
                                         !.image = image,
                                         !.requests = <<BuildRequest(p, shared)>>]]

\* generateOrEditImage(p, image) up to the awaited remote call
Invoke(c, p, image) ==
    /\ calls[c].pc = "idle"
    /\ calls' = [calls EXCEPT ![c] =
                    [IdleCall EXCEPT !.pc = "awaiting", !.prompt = p,
                                     !.image = image,
                                     !.requests = <<BuildRequest(p, image)>>]]

\* generateOrEditImage from the settlement of the remote call to its own
\* settlement
Settle(c, answer) ==
    /\ calls[c].pc = "awaiting"
    /\ LET op == calls[c].requests[Len(calls[c].requests)].op
           completion == TryBody(op, answer)
       IN  calls' = [calls EXCEPT ![c] =
              IF completion.kind = "return"
              THEN [@ EXCEPT !.pc = "done", !.answer = Some(answer),
                             !.outcome = Some(Returned(completion.value))]
              ELSE [@ EXCEPT !.pc = "done", !.answer = Some(answer),
                             !.outcome = Some(Raised(CatchHandler(completion.thrown[1]))),
                             !.caught = @ + 1,
                             !.logged = Append(@, completion.thrown[1])]]

DirectInputs == {<<p, img>> : p \in DirectPrompts, img \in {None} \cup {Some(i) : i \in SourceImages}}

DirectInvoke(c) ==
    /\ \E in \in DirectInputs : Invoke(c, in[1], in[2])
    /\ UNCHANGED <<mock, appVars>>

DirectSettle(c) ==
    /\ calls[c].pc = "awaiting"
    /\ \E a \in ProviderAnswers(calls[c].requests[1].op) : Settle(c, a)
    /\ UNCHANGED <<mock, appVars>>

(***************************************************************************)
(* App                                                                     *)
(***************************************************************************)
initialPrompt == <<"A fierce athletic woman ... 50mm f/1.2 S lens [Camera Model and Lens].">>

Whitespace == {" ", "\n"}

\* what the user can type into the prompt textarea
PromptValues == {<<>>, <<" ">>, <<"a">>, <<" ", "a", " ", "b", "\n">>}

PLAIN == <<"text/", "plain">>

\* files the user can pick: type and base64 of the contents
Files ==
    {[type |-> PNG, content |-> <<"AAAA">>],
     [type |-> WEBP, content |-> <<>>],
     [type |-> PLAIN, content |-> <<"CCCC">>]}

RECURSIVE TrimStart(_)
TrimStart(s) ==
    IF s # <<>> /\ Head(s) \in Whitespace THEN TrimStart(Tail(s)) ELSE s

RECURSIVE TrimEnd(_)
TrimEnd(s) ==
    IF s # <<>> /\ s[Len(s)] \in Whitespace
    THEN TrimEnd(SubSeq(s, 1, Len(s) - 1))
    ELSE s

\* String.prototype.trim
Trim(s) == TrimEnd(TrimStart(s))

\* String.prototype.startsWith for a one-token prefix
StartsWith(s, prefix) == s # <<>> /\ Head(s) = prefix

\* String.prototype.split on a one-token separator
RECURSIVE Split(_, _)
Split(s, sep) ==
    IF \A i \in 1..Len(s) : s[i] # sep THEN <<s>>
    ELSE LET k == CHOOSE i \in 1..Len(s) : s[i] = sep /\ \A j \in 1..(i - 1) : s[j] # sep
         IN  <<SubSeq(s, 1, k - 1)>> \o Split(SubSeq(s, k + 1, Len(s)), sep)

\* FileReader.readAsDataURL: the result of a successful read
ReadAsDataURL(file) == <<"data:">> \o file.type \o <<";base64", ",">> \o file.content

InvalidFile == <<"Please upload a valid image file (e.g., PNG, JPG, WEBP).">>

FailedPrefix == <<"Failed to generate content. Please try again. Error: ">>

UnknownError == <<"An unknown error occurred.">>

\* if (!prompt.trim() || isLoading) return;
SubmitBlocked(p, loading) == Trim(p) = <<>> \/ loading

\* disabled={isLoading || !prompt.trim()}
ButtonDisabled(p, loading) == loading \/ Trim(p) = <<>>

InFlight == {c \in AppCalls : calls[c].pc # "idle"}

setPrompt(v) ==
    /\ prompt' = v
    /\ UNCHANGED <<adapterVars, uploadedImage, generatedImageUrl, isLoading,
                   error, readers, pending>>

\* onChange of the file input, which is rendered only while no image is
\* uploaded; file is the picked file, if any
handleImageUpload(file) ==
    /\ uploadedImage = None
    /\ IF file # None /\ StartsWith(file[1].type, "image/")
       THEN /\ Len(readers) < MaxReaders
            /\ error' = None
            /\ readers' = Append(readers, file[1])
       ELSE IF file # None
       THEN /\ error' = Some(InvalidFile)
            /\ UNCHANGED readers
       ELSE UNCHANGED <<error, readers>>
    /\ UNCHANGED <<adapterVars, prompt, uploadedImage, generatedImageUrl,
                   isLoading, pending>>

\* reader.onloadend: ok tells whether the read succeeded; after a failed
\* read reader.result is null and the callback throws before setUploadedImage
onloadend(i, ok) ==
    /\ i \in 1..Len(readers)
    /\ readers' = SubSeq(readers, 1, i - 1) \o SubSeq(readers, i + 1, Len(readers))
    /\ IF ok
       THEN LET dataUrl == ReadAsDataURL(readers[i])
            IN  uploadedImage' = Some([data |-> Split(dataUrl, ",")[2],
                                       mimeType |-> readers[i].type,
                                       preview |-> dataUrl])
       ELSE UNCHANGED uploadedImage
    /\ UNCHANGED <<adapterVars, prompt, generatedImageUrl, isLoading, error,
                   pending>>

removeUploadedImage ==
    /\ uploadedImage # None
    /\ uploadedImage' = None
    /\ UNCHANGED <<adapterVars, prompt, generatedImageUrl, isLoading, error,
                   readers, pending>>

\* handleGenerateOrEdit and the button without the isLoading check
handleGenerateOrEditWhileLoading(c) ==
    /\ Trim(prompt) # <<>>
    /\ c \in AppCalls
    /\ calls[c].pc = "idle"
    /\ \A d \in AppCalls : d < c => calls[d].pc # "idle"
    /\ isLoading' = TRUE
    /\ error' = None
    /\ generatedImageUrl' = None
    /\ LET imageToEdit == IF uploadedImage # None
                          THEN Some([data |-> uploadedImage[1].data,
                                     mimeType |-> uploadedImage[1].mimeType])
                          ELSE None
       IN  Invoke(c, prompt, imageToEdit)
    /\ pending' = pending \cup {c}
    /\ UNCHANGED <<mock, prompt, uploadedImage, readers>>

\* click on the button: handleGenerateOrEdit up to the awaited adapter call
handleGenerateOrEdit(c) ==
    /\ ~ButtonDisabled(prompt, isLoading)
    /\ ~SubmitBlocked(prompt, isLoading)
    /\ c \in AppCalls
    /\ calls[c].pc = "idle"
    /\ \A d \in AppCalls : d < c => calls[d].pc # "idle"
    /\ isLoading' = TRUE
    /\ error' = None
    /\ generatedImageUrl' = None
    /\ LET imageToEdit == IF uploadedImage # None
                          THEN Some([data |-> uploadedImage[1].data,
                                     mimeType |-> uploadedImage[1].mimeType])
                          ELSE None
       IN  Invoke(c, prompt, imageToEdit)
    /\ pending' = pending \cup {c}
    /\ UNCHANGED <<mock, prompt, uploadedImage, readers>>

\* the adapter call made by the App settles
AppSettle(c) ==
    /\ c \in AppCalls
    /\ calls[c].pc = "awaiting"
    /\ \E a \in ProviderAnswers(calls[c].requests[1].op) : Settle(c, a)
    /\ UNCHANGED <<mock, appVars>>

\* resumeGenerateOrEdit resetting isLoading on success only
resumeWithoutFinally(c) ==
    /\ c \in pending
    /\ calls[c].pc = "done"
    /\ LET outcome == calls[c].outcome[1]
       IN  IF outcome.kind = "returned"
           THEN /\ generatedImageUrl' = Some(outcome.value)
                /\ isLoading' = FALSE
                /\ UNCHANGED error
           ELSE LET err == outcome.error[1]
                    errorMessage == IF err.instanceofError THEN err.message[1]
                                    ELSE UnknownError
                IN  /\ error' = Some(FailedPrefix \o errorMessage)
                    /\ UNCHANGED <<generatedImageUrl, isLoading>>
    /\ pending' = pending \ {c}
    /\ calls' = [calls EXCEPT ![c] = IdleCall]
    /\ UNCHANGED <<mock, prompt, uploadedImage, readers>>

\* handleGenerateOrEdit after the awaited adapter call: try / catch / finally
resumeGenerateOrEdit(c) ==
    /\ c \in pending
    /\ calls[c].pc = "done"
    /\ LET outcome == calls[c].outcome[1]
       IN  IF outcome.kind = "returned"
           THEN /\ generatedImageUrl' = Some(outcome.value)
                /\ UNCHANGED error
           ELSE LET err == outcome.error[1]
                    errorMessage == IF err.instanceofError THEN err.message[1]
                                    ELSE UnknownError
                IN  /\ error' = Some(FailedPrefix \o errorMessage)
                    /\ UNCHANGED generatedImageUrl
    /\ isLoading' = FALSE
    /\ pending' = pending \ {c}
    /\ calls' = [calls EXCEPT ![c] = IdleCall]
    /\ UNCHANGED <<mock, prompt, uploadedImage, readers>>

(***************************************************************************)
(* Specifications                                                          *)
(***************************************************************************)
Init ==
    /\ calls = [c \in Calls \cup AppCalls |-> IdleCall]
    /\ mock = None
    /\ prompt = initialPrompt
    /\ uploadedImage = None
    /\ generatedImageUrl = None
    /\ isLoading = FALSE
    /\ error = None
    /\ readers = <<>>
    /\ pending = {}

\* one invocation of the adapter against a provider that may answer anything
Next ==
    \/ DirectInvoke(1)
    \/ DirectSettle(1)

Spec == Init /\ [][Next]_vars

\* the App component driven by the user, the file reader and the provider
AppNext ==
    \/ \E v \in PromptValues : setPrompt(v)
    \/ \E f \in {None} \cup {Some(x) : x \in Files} : handleImageUpload(f)
    \/ \E i \in 1..MaxReaders, ok \in BOOLEAN : onloadend(i, ok)
    \/ removeUploadedImage
    \/ \E c \in AppCalls : handleGenerateOrEdit(c)
    \/ \E c \in AppCalls : AppSettle(c)
    \/ \E c \in AppCalls : resumeGenerateOrEdit(c)

AppSpec == Init /\ [][AppNext]_vars

\* deterministic mock transports: one scripted answer per remote operation
MockEditAnswers ==
    {Resolve([candidates |-> Some(<<[content |-> Some([parts |->
        Some(<<TextPart, InlinePart(Some(<<"AAAA">>), Some(PNG))>>)])]>>)]),
     Resolve([candidates |-> None]),
     Reject(Thrown(TRUE, Some(<<"fetch failed">>), "transport"))}

MockGenerateAnswers ==
    {Resolve([generatedImages |-> Some(<<Entry(Some([imageBytes |-> Some(<<"BBBB">>),
                                                     mimeType |-> None]))>>)]),
     Resolve([generatedImages |-> Some(<<>>)]),
     Reject(Thrown(FALSE, None, "transport"))}

MockScripts == [edit : MockEditAnswers, generate : MockGenerateAnswers]

MockInit ==
    /\ calls = [c \in Calls \cup AppCalls |-> IdleCall]
    /\ mock \in {Some(s) : s \in MockScripts}
    /\ prompt = initialPrompt
    /\ uploadedImage = None
    /\ generatedImageUrl = None
    /\ isLoading = FALSE
    /\ error = None
    /\ readers = <<>>
    /\ pending = {}

\* concurrent invocations of the adapter against a deterministic mock
MockNext ==
    \/ \E c \in Calls : DirectInvoke(c)
    \/ \E c \in Calls : DirectSettle(c)

MockSpec == MockInit /\ [][MockNext]_vars

\* the remote call of the App eventually settles and the suspended handler
\* is eventually resumed
FairAppSpec ==
    /\ AppSpec
    /\ WF_vars(\E c \in AppCalls : AppSettle(c))
    /\ WF_vars(\E c \in AppCalls : resumeGenerateOrEdit(c))

(***************************************************************************)
(* Properties                                                              *)
(***************************************************************************)
Done(c) == calls[c].pc = "done"

OpOf(c) == calls[c].requests[1].op

\* the response a finished call received, when the remote call resolved
Resolved(c) == Done(c) /\ calls[c].answer[1].settled = "resolve"

ResponseOf(c) == calls[c].answer[1].response[1]

OutcomeOf(c) == calls[c].outcome[1]

Wrapped(msg) == <<"Gemini API Error: ">> \o msg

UnknownForm == <<"An unknown error occurred while generating the content.">>

\* the call failed and the caller received an error with this message text
FailsWith(c, msg) ==
    /\ OutcomeOf(c).kind = "raised"
    /\ OutcomeOf(c).value = <<>>
    /\ OutcomeOf(c).error[1].message = Some(msg)

\* the parts list of the first candidate of an edit response, <<>> if any
\* link of the chain is missing
PartsOf(r) ==
    IF r.candidates = None THEN <<>>
    ELSE IF r.candidates[1] = <<>> THEN <<>>
    ELSE IF r.candidates[1][1].content = None THEN <<>>
    ELSE IF r.candidates[1][1].content[1].parts = None THEN <<>>
    ELSE r.candidates[1][1].content[1].parts[1]

\* C1: every call issues exactly one remote request, never a second one; it
\* is the edit operation iff the image argument is supplied and the generate
\* operation iff it is absent, whatever the prompt and the image's content.
C1_OneRequestChosenByPresence ==
    \A c \in Calls \cup AppCalls :
        calls[c].pc # "idle" =>
            /\ Len(calls[c].requests) = 1
            /\ (OpOf(c) = "edit") <=> (calls[c].image # None)
            /\ (OpOf(c) = "generate") <=> (calls[c].image = None)

C1_Witness ==
    \E c \in Calls :
        /\ Done(c)
        /\ calls[c].image # None
        /\ calls[c].image[1].mimeType = WEBP
        /\ calls[c].prompt = <<>>
        /\ OutcomeOf(c).kind = "raised"
        /\ Len(calls[c].requests) = 1
        /\ OpOf(c) = "edit"

\* C2: on the edit path, when the parts list has a part with inline data, the
\* call returns the data URL built from the payload and media type of the
\* first such part in list order.
C2_FirstInlinePartReturned ==
    \A c \in Calls :
        (Resolved(c) /\ OpOf(c) = "edit") =>
            LET ps == PartsOf(ResponseOf(c))
            IN  \A k \in 1..Len(ps) :
                    (/\ ps[k].inlineData # None
                     /\ \A j \in 1..(k - 1) : ps[j].inlineData = None)
                    => OutcomeOf(c) =
                          Returned(<<"data:">> \o ps[k].inlineData[1].mimeType[1]
                                   \o <<";base64", ",">>
                                   \o ps[k].inlineData[1].data[1])

C2_Witness ==
    \E c \in Calls :
        /\ Resolved(c)
        /\ OpOf(c) = "edit"
        /\ PartsOf(ResponseOf(c)) =
              <<TextPart, InlinePart(Some(<<>>), Some(WEBP)),
                InlinePart(Some(<<"AAAA">>), Some(PNG))>>
        /\ OutcomeOf(c) = Returned(<<"data:", "image/", "webp", ";base64", ",">>)

\* the first entry of a generate response has a non-empty payload
HasPayload(r) ==
    /\ r.generatedImages # None
    /\ r.generatedImages[1] # <<>>
    /\ r.generatedImages[1][1].image # None
    /\ r.generatedImages[1][1].image[1].imageBytes # None
    /\ r.generatedImages[1][1].image[1].imageBytes[1] # <<>>

\* C3: on the generate path, when the first entry of a non-empty list has a
\* non-empty payload P, the call returns data:image/jpeg;base64,P whatever
\* media type the entry claims and whatever entries follow.
C3_FirstImageAsJpeg ==
    \A c \in Calls :
        (Resolved(c) /\ OpOf(c) = "generate" /\ HasPayload(ResponseOf(c))) =>
            OutcomeOf(c) =
                Returned(<<"data:", "image/", "jpeg", ";base64", ",">>
                         \o ResponseOf(c).generatedImages[1][1].image[1].imageBytes[1])

C3_Witness ==
    \E c \in Calls :
        /\ Resolved(c)
        /\ OpOf(c) = "generate"
        /\ HasPayload(ResponseOf(c))
        /\ Len(ResponseOf(c).generatedImages[1]) = 2
        /\ ResponseOf(c).generatedImages[1][1] =
              Entry(Some([imageBytes |-> Some(<<"AAAA">>), mimeType |-> Some(PNG)]))
        /\ ResponseOf(c).generatedImages[1][2] =
              Entry(Some([imageBytes |-> Some(<<"BBBB">>), mimeType |-> None]))
        /\ OutcomeOf(c) = Returned(<<"data:", "image/", "jpeg", ";base64", ",", "AAAA">>)

\* the list of a generate response is non-empty and its first entry has an
\* empty or missing payload, or no image object at all
FirstPayloadMissing(r) ==
    /\ r.generatedImages # None
    /\ r.generatedImages[1] # <<>>
    /\ \/ r.generatedImages[1][1].image = None
       \/ r.generatedImages[1][1].image[1].imageBytes = None
       \/ r.generatedImages[1][1].image[1].imageBytes[1] = <<>>

\* C4: on the generate path, when the first entry has an empty or missing
\* payload or no image object at all, the call fails with the reason
\* "Generated image data is empty.", which differs from the reason for an
\* empty list and from the wrapped reason of any other exception.
C4_EmptyPayloadReason ==
    \A c \in Calls :
        (Resolved(c) /\ OpOf(c) = "generate" /\ FirstPayloadMissing(ResponseOf(c))) =>
            /\ FailsWith(c, Wrapped(EmptyImageData))
            /\ calls[c].logged[1].site = "L61"

\* C5: on the generate path, when the list of generated images is empty or
\* absent, the call fails with the reason "API did not return any images."
\* and returns no image.
C5_NoImagesReason ==
    \A c \in Calls :
        (/\ Resolved(c)
         /\ OpOf(c) = "generate"
         /\ \/ ResponseOf(c).generatedImages = None
            \/ ResponseOf(c).generatedImages[1] = <<>>)
        => FailsWith(c, Wrapped(NoImages))

C5_Witness ==
    \E c \in Calls :
        /\ Resolved(c)
        /\ OpOf(c) = "generate"
        /\ ResponseOf(c).generatedImages = Some(<<>>)
        /\ FailsWith(c, Wrapped(NoImages))

\* C6: on the edit path, when no part of the response carries inline image
\* data (empty list, text parts only, or no candidates or content at all),
\* the call fails with the reason "API did not return an edited image." and
\* returns no image.
C6_NoEditedImageReason ==
    \A c \in Calls :
        (/\ Resolved(c)
         /\ OpOf(c) = "edit"
         /\ \A k \in 1..Len(PartsOf(ResponseOf(c))) :
                PartsOf(ResponseOf(c))[k].inlineData = None)
        => FailsWith(c, Wrapped(NoEditedImage))

C6_Witness ==
    \E c \in Calls :
        /\ Resolved(c)
        /\ OpOf(c) = "edit"
        /\ PartsOf(ResponseOf(c)) = <<TextPart, TextPart>>
        /\ FailsWith(c, Wrapped(NoEditedImage))

\* the caught value carries message text
HasMessageText(x) == x.message # None /\ x.message[1] # <<>>

\* what every finished call satisfies whatever the form of its error: at most
\* one catch, one newly created error per failed call, never the raw caught
\* value, never both an image and an error
OneNormalizedError(c) ==
    IF OutcomeOf(c).kind = "returned"
    THEN /\ calls[c].caught = 0
         /\ calls[c].logged = <<>>
         /\ OutcomeOf(c).error = None
    ELSE /\ calls[c].caught = 1
         /\ Len(calls[c].logged) = 1
         /\ OutcomeOf(c).value = <<>>
         /\ OutcomeOf(c).error # None
         /\ OutcomeOf(c).error[1] # calls[c].logged[1]
         /\ OutcomeOf(c).error[1].site \in {"L69", "L71"}
         /\ OutcomeOf(c).error[1].instanceofError

\* C7 as stated: every failure is caught once and yields one newly created
\* error, which wraps the original message text when the caught value is an
\* Error and is the unknown-error form when the caught value is not an Error
\* or carries no message text.
C7_UnknownFormWhenNoText ==
    \A c \in Calls :
        Done(c) =>
            /\ OneNormalizedError(c)
            /\ OutcomeOf(c).kind = "raised" =>
                LET x == calls[c].logged[1]
                IN  IF x.instanceofError /\ HasMessageText(x)
                    THEN FailsWith(c, Wrapped(x.message[1]))
                    ELSE FailsWith(c, UnknownForm)

\* C7 amended: every failure is caught once and yields one newly created
\* error, which wraps the original message text, empty or not, whenever the
\* caught value is an Error, and is the unknown-error form exactly when the
\* caught value is not an Error, whether or not it carries message text.
C7_UnknownFormIffNotError ==
    \A c \in Calls :
        Done(c) =>
            /\ OneNormalizedError(c)
            /\ OutcomeOf(c).kind = "raised" =>
                LET x == calls[c].logged[1]
                IN  IF x.instanceofError
                    THEN FailsWith(c, Wrapped(x.message[1]))
                    ELSE FailsWith(c, UnknownForm)

C7_Witness ==
    \E c \in Calls :
        /\ Done(c)
        /\ calls[c].answer[1].settled = "reject"
        /\ calls[c].logged = <<Thrown(TRUE, Some(<<>>), "transport")>>
        /\ FailsWith(c, <<"Gemini API Error: ">>)
        /\ OutcomeOf(c).error[1].site = "L69"

\* C8: two finished invocations with identical prompt and image against a
\* deterministic provider have identical outcomes, whatever other
\* invocations ran before, between or concurrently with them.
C8_SameInputsSameOutcome ==
    \A c, d \in Calls :
        (/\ Done(c)
         /\ Done(d)
         /\ calls[c].prompt = calls[d].prompt
         /\ calls[c].image = calls[d].image)
        => /\ calls[c].outcome = calls[d].outcome
           /\ calls[c].requests = calls[d].requests

C8_Witness ==
    \E c, d, e \in Calls :
        /\ c # d
        /\ Done(c)
        /\ Done(d)
        /\ calls[c].prompt = calls[d].prompt
        /\ calls[c].image = calls[d].image
        /\ calls[c].image = None
        /\ OutcomeOf(c).kind = "returned"
        /\ calls[e].pc = "awaiting"
        /\ calls[e].image # None

\* a step in which the App starts adapter call c
StartStep(c) == calls[c].pc = "idle" /\ calls'[c].pc = "awaiting"

\* a step in which the App's handler resumes after adapter call c
ResumeStep(c) == c \in pending /\ c \notin pending'

EndsWith(s, t) ==
    Len(t) <= Len(s) /\ SubSeq(s, Len(s) - Len(t) + 1, Len(s)) = t

C9_RunUpdates ==
    \A c \in AppCalls :
        /\ StartStep(c) =>
              /\ isLoading'
              /\ error' = None
              /\ generatedImageUrl' = None
        /\ ResumeStep(c) =>
              /\ Done(c)
              /\ ~isLoading'
              /\ OutcomeOf(c).kind = "returned" =>
                    /\ generatedImageUrl' = Some(OutcomeOf(c).value)
                    /\ error' = error
              /\ OutcomeOf(c).kind = "raised" =>
                    /\ error' # None
                    /\ EndsWith(error'[1], OutcomeOf(c).error[1].message[1])
                    /\ generatedImageUrl' = generatedImageUrl

\* C9: a request started by handleGenerateOrEdit sets isLoading and clears
\* error and generatedImageUrl before the adapter is called; when the call
\* has settled isLoading is reset, on success generatedImageUrl is the
\* returned data URL and error is untouched, on failure error contains the
\* adapter error's message text and generatedImageUrl is untouched; and if
\* the remote call settles, isLoading is eventually false again.
C9_LoadingResetOnBothOutcomes ==
    /\ [][C9_RunUpdates]_vars
    /\ isLoading ~> ~isLoading

C9_Witness ==
    /\ ~isLoading
    /\ pending = {}
    /\ generatedImageUrl = None
    /\ error = Some(FailedPrefix \o Wrapped(NoEditedImage))

\* C10: the App never has more than one adapter call in flight, and it
\* starts one only when isLoading is false and the trimmed prompt is
\* non-empty.
C10_AtMostOneInFlight ==
    /\ [](Cardinality(InFlight) <= 1)
    /\ [][\A c \in AppCalls :
             StartStep(c) => /\ ~isLoading
                             /\ Trim(prompt) # <<>>
                             /\ InFlight = {}]_vars

C10_Witness ==
    /\ Cardinality(InFlight) = 1
    /\ isLoading
    /\ prompt = <<" ", "a", " ", "b", "\n">>
    /\ uploadedImage # None
    /\ \E c \in InFlight : calls[c].image = None /\ calls[c].prompt = <<"a">>

====
